---- MODULE Spec2Model ----
(***************************************************************************)
(* Model of server/scripts/curate_words.py: the word-list curation batch.  *)
(* A text is a sequence of one-character strings; a file system maps each  *)
(* path to a record saying whether the file exists and what it holds.      *)
(* Frequencies and thresholds are Zipf values in hundredths (3.4 is 340),  *)
(* which is the resolution the frequency oracle reports.                   *)
(***************************************************************************)
EXTENDS Integers, Sequences, FiniteSets, TLC

\* ------------------------------------------------------------------ bounds
MaxLines == 3
MaxRuns == 2

\* --------------------------------------------------------------- characters
\* The characters a file can hold here, in ascending code point order.
CodeOrder ==
  << "\t", "\n", "\r", " ", "\"", ",", ".",
     "0", "1", "2", "3", "4", "5", "6", "7", "8", "9",
     "A", "B", "C", "D", "E", "F", "G", "H", "I", "J", "K", "L", "M",
     "N", "O", "P", "Q", "R", "S", "T", "U", "V", "W", "X", "Y", "Z",
     "_",
     "a", "b", "c", "d", "e", "f", "g", "h", "i", "j", "k", "l", "m",
     "n", "o", "p", "q", "r", "s", "t", "u", "v", "w", "x", "y", "z" >>

Chars == { CodeOrder[i] : i \in DOMAIN CodeOrder }

Ord == [ c \in Chars |-> CHOOSE i \in DOMAIN CodeOrder : CodeOrder[i] = c ]

OrdUpperA == Ord["A"]
OrdLowerA == Ord["a"]

IsLower(c) == Ord[c] >= OrdLowerA
IsUpper(c) == Ord[c] >= OrdUpperA /\ Ord[c] < OrdUpperA + 26

\* str.upper() and str.lower() on one character
UpperChar(c) == IF IsLower(c) THEN CodeOrder[Ord[c] - OrdLowerA + OrdUpperA] ELSE c
LowerChar(c) == IF IsUpper(c) THEN CodeOrder[Ord[c] - OrdUpperA + OrdLowerA] ELSE c

Upper(s) == [ i \in DOMAIN s |-> UpperChar(s[i]) ]
Lower(s) == [ i \in DOMAIN s |-> LowerChar(s[i]) ]

Whitespace == { "\t", "\n", "\r", " " }

Min(S) == CHOOSE x \in S : \A y \in S : x <= y
Max(S) == CHOOSE x \in S : \A y \in S : x >= y

\* str.strip(): drop leading and trailing whitespace
Strip(s) ==
  LET solid == { i \in DOMAIN s : s[i] \notin Whitespace }
  IN IF solid = { } THEN << >> ELSE SubSeq(s, Min(solid), Max(solid))

\* Text-mode read with universal newlines: "\r\n" and "\r" arrive as "\n".
TranslateNewlines(t) ==
  LET stays(i) == ~ (t[i] = "\n" /\ i > 1 /\ t[i - 1] = "\r")
      idx == SelectSeq([ i \in DOMAIN t |-> i ], stays)
  IN [ k \in DOMAIN idx |-> IF t[idx[k]] = "\r" THEN "\n" ELSE t[idx[k]] ]

\* str.splitlines(): the lines of t, without their terminators; a final
\* terminator does not open another line.
RECURSIVE splitlines(_)
splitlines(t) ==
  IF t = << >> THEN << >>
  ELSE LET breaks == { i \in DOMAIN t : t[i] \in { "\n", "\r" } }
       IN IF breaks = { } THEN << t >>
          ELSE LET i == Min(breaks)
                   skip == IF t[i] = "\r" /\ i < Len(t) /\ t[i + 1] = "\n" THEN 2 ELSE 1
               IN << SubSeq(t, 1, i - 1) >> \o splitlines(SubSeq(t, i + skip, Len(t)))

\* "\n".join(words)
RECURSIVE JoinLines(_)
JoinLines(words) ==
  IF words = << >> THEN << >>
  ELSE IF Len(words) = 1 THEN words[1]
  ELSE words[1] \o << "\n" >> \o JoinLines(Tail(words))

\* Code point order on strings, as Python compares str values: the first
\* position where they differ decides, and a proper prefix comes first
StrLess(a, b) ==
  LET n == IF Len(a) < Len(b) THEN Len(a) ELSE Len(b)
      diff == { i \in 1..n : a[i] # b[i] }
  IN IF diff = { } THEN Len(a) < Len(b)
     ELSE Ord[a[Min(diff)]] < Ord[b[Min(diff)]]

StrLeq(a, b) == a = b \/ StrLess(a, b)

\* ------------------------------------------------------------ pure pipeline
\* load_words: one normalised word per non-blank line, in file order
RECURSIVE NormaliseLines(_)
NormaliseLines(lines) ==
  IF lines = << >> THEN << >>
  ELSE IF Strip(Head(lines)) # << >>
       THEN << Upper(Strip(Head(lines))) >> \o NormaliseLines(Tail(lines))
       ELSE NormaliseLines(Tail(lines))

load_words(text) == NormaliseLines(splitlines(TranslateNewlines(text)))

\* The text save_words hands to write_text
save_words_text(words) == JoinLines(words) \o << "\n" >>

\* The frequency oracle: a table for the words it knows, 0.00 for the rest
zipf_frequency(table, word) ==
  IF word \in DOMAIN table THEN table[word] ELSE 0

\* dataclass WordScore
WordScore(w, f) == [ word |-> w, freq |-> f ]

\* score_words: one WordScore per word occurrence, in order
score_words(table, words) ==
  [ i \in DOMAIN words |-> WordScore(words[i], zipf_frequency(table, Lower(words[i]))) ]

\* A list comprehension with a condition on freq: the order is kept
RECURSIVE SelectAtLeast(_, _)
SelectAtLeast(scoredSeq, threshold) ==
  IF scoredSeq = << >> THEN << >>
  ELSE IF Head(scoredSeq).freq >= threshold
       THEN << Head(scoredSeq) >> \o SelectAtLeast(Tail(scoredSeq), threshold)
       ELSE SelectAtLeast(Tail(scoredSeq), threshold)

RECURSIVE SelectBelow(_, _)
SelectBelow(scoredSeq, threshold) ==
  IF scoredSeq = << >> THEN << >>
  ELSE IF Head(scoredSeq).freq < threshold
       THEN << Head(scoredSeq) >> \o SelectBelow(Tail(scoredSeq), threshold)
       ELSE SelectBelow(Tail(scoredSeq), threshold)

\* freq > threshold in place of freq >= threshold
Kept_strict(scoredSeq, threshold) == SelectAtLeast(scoredSeq, threshold + 1)

Kept(scoredSeq, threshold) == SelectAtLeast(scoredSeq, threshold)
Dropped(scoredSeq, threshold) == SelectBelow(scoredSeq, threshold)

\* guesses_threshold is << >> when --guesses-threshold is not given, and then
\* stands for float("-inf"), which every frequency is at least.
AllowedEntries(scoredSeq, guesses_threshold) ==
  IF guesses_threshold = << >> THEN scoredSeq
  ELSE SelectAtLeast(scoredSeq, guesses_threshold[1])

WordsOf(scoredSeq) == [ i \in DOMAIN scoredSeq |-> scoredSeq[i].word ]

\* sorted(words): ascending code point order, duplicates kept
RECURSIVE InsertWord(_, _)
InsertWord(w, sortedSeq) ==
  IF sortedSeq = << >> THEN << w >>
  ELSE IF StrLess(w, Head(sortedSeq)) THEN << w >> \o sortedSeq
  ELSE << Head(sortedSeq) >> \o InsertWord(w, Tail(sortedSeq))

\* The words as they come, not sorted
SortedWords_unsorted(words) == words

RECURSIVE SortedWords(_)
SortedWords(words) ==
  IF words = << >> THEN << >>
  ELSE InsertWord(words[Len(words)], SortedWords(SubSeq(words, 1, Len(words) - 1)))

\* sorted(dropped, key=freq): ascending by freq, stable (ties keep list order)
RECURSIVE InsertByFreq(_, _)
InsertByFreq(item, sortedSeq) ==
  IF sortedSeq = << >> THEN << item >>
  ELSE IF item.freq < Head(sortedSeq).freq THEN << item >> \o sortedSeq
  ELSE << Head(sortedSeq) >> \o InsertByFreq(item, Tail(sortedSeq))

\* The rejects as they come, not sorted
SortedByFreq_unsorted(items) == items

RECURSIVE SortedByFreq(_)
SortedByFreq(items) ==
  IF items = << >> THEN << >>
  ELSE InsertByFreq(items[Len(items)], SortedByFreq(SubSeq(items, 1, Len(items) - 1)))

\* ------------------------------------------------------------- reject report
Digits == << "0", "1", "2", "3", "4", "5", "6", "7", "8", "9" >>

RECURSIVE Decimal(_)
Decimal(n) ==
  IF n < 10 THEN << Digits[n + 1] >>
  ELSE Decimal(n \div 10) \o << Digits[(n % 10) + 1] >>

\* f"{freq:.3f}" for a frequency of h hundredths
FormatFreq(h) ==
  Decimal(h \div 100) \o << ".", Digits[((h \div 10) % 10) + 1], Digits[(h % 10) + 1], "0" >>

\* csv.writer with the default dialect: a field holding the delimiter, the
\* quote character or a line break is quoted, and its quotes are doubled.
NeedsQuote(field) == \E i \in DOMAIN field : field[i] \in { ",", "\"", "\r", "\n" }

RECURSIVE DoubleQuotes(_)
DoubleQuotes(field) ==
  LET quotes == { i \in DOMAIN field : field[i] = "\"" }
  IN IF quotes = { } THEN field
     ELSE LET i == Min(quotes)
          IN SubSeq(field, 1, i) \o << "\"" >> \o DoubleQuotes(SubSeq(field, i + 1, Len(field)))

CsvField(field) ==
  IF NeedsQuote(field) THEN << "\"" >> \o DoubleQuotes(field) \o << "\"" >> ELSE field

CsvRow(f1, f2) == CsvField(f1) \o << "," >> \o CsvField(f2) \o << "\r", "\n" >>

HeaderWord == << "w", "o", "r", "d" >>
HeaderFreq == << "z", "i", "p", "f", "_", "f", "r", "e", "q", "u", "e", "n", "c", "y" >>

RECURSIVE RejectRows(_)
RejectRows(rejects) ==
  IF rejects = << >> THEN << >>
  ELSE CsvRow(Head(rejects).word, FormatFreq(Head(rejects).freq)) \o RejectRows(Tail(rejects))

\* The bytes export_rejects leaves in the file
export_rejects_text(rejects) == CsvRow(HeaderWord, HeaderFreq) \o RejectRows(rejects)

\* ------------------------------------------------------------ configuration
DefaultSource == "server/allowed_guesses.txt"
DefaultRejects == "server/rejected_words.csv"
DefaultGuessesOutput == "server/allowed_guesses.txt"
DefaultThreshold == 340
OtherPath == "server/words.txt"

Paths == { DefaultSource, DefaultRejects, OtherPath }
SourcePaths == { DefaultSource }
OutputOptions == { << >> } \cup { << p >> : p \in Paths }
Thresholds == { DefaultThreshold, 400 }
GuessesThresholds == { << >>, << 400 >> }

\* argparse namespace; output and guesses_threshold are << >> when not given
ArgsSet ==
  [ source : SourcePaths, output : OutputOptions, rejects : Paths,
    guesses_output : Paths, threshold : Thresholds,
    guesses_threshold : GuessesThresholds ]

\* Command lines that vary the thresholds and keep to two layouts of the
\* paths: the defaults, and the guesses list sent to a file of its own
ArgsValues ==
  { a \in ArgsSet : /\ a.output = << >>
                    /\ a.rejects = DefaultRejects
                    /\ a.guesses_output \in { DefaultGuessesOutput, OtherPath } }

\* Command lines that vary the four paths and keep the default threshold
ArgsPaths ==
  { a \in ArgsSet : a.threshold = DefaultThreshold /\ a.guesses_threshold = << >> }

\* output_path = args.output or source_path
OutputPath(a) == IF a.output = << >> THEN a.source ELSE a.output[1]

\* ------------------------------------------------------------- file system
NoFile == [ exists |-> FALSE, text |-> << >> ]
File(t) == [ exists |-> TRUE, text |-> t ]

\* A write that opens the file for appending
write_text_append(fsys, path, t) == [ fsys EXCEPT ![path] = File(fsys[path].text \o t) ]

\* Path.write_text and the open("w") of export_rejects: the file is replaced
write_text(fsys, path, t) == [ fsys EXCEPT ![path] = File(t) ]

\* What a write that raises before all of t is on disk can have stored
Prefixes(t) == { SubSeq(t, 1, n) : n \in 0..(Len(t) - 1) }

\* A write of t to path that raises: either the open raised (missing
\* directory, no permission) and nothing changed, or the open created or
\* truncated the file and the write stopped short (file size limit, full
\* disk), leaving a proper prefix of t.  main() has no handler for either.
failed_write(fsys, path, t) ==
  { fsys } \cup { [ fsys EXCEPT ![path] = File(q) ] : q \in Prefixes(t) }

\* Path.exists
path_exists(fsys, path) == fsys[path].exists

\* The output file opened for writing before the source is looked at
not_found_fs_touch(fsys, a) == write_text(fsys, OutputPath(a), << >>)

\* What the run leaves on disk when the source is missing
not_found_fs(fsys, a) == fsys

\* The oracle's tables and the first contents of the files
KnownWords == { << "a" >>, << "b" >> }
FreqVals == { 0, 340, 532 }
\* The source is made of up to MaxLines of these pieces, each followed by a
\* newline: a lower-case word, and a padded word followed by a blank line
RawLines == { << "a" >>, << " ", "B", "\n", " " >> }
\* A list that a path other than the source may already hold
OldText == << "B", "\n" >>

RECURSIVE TextOfLines(_)
TextOfLines(lines) ==
  IF lines = << >> THEN << >>
  ELSE Head(lines) \o << "\n" >> \o TextOfLines(Tail(lines))

LineSeqs == UNION { [ 1..n -> RawLines ] : n \in 0..MaxLines }
InitTexts == { TextOfLines(ls) : ls \in LineSeqs }

\* ------------------------------------------------------------------- state
VARIABLES
  args,      \* the parsed command line, the same in every run
  oracle,    \* the frequency table behind zipf_frequency
  fs,        \* the file system
  pc,        \* where main() stands
  run,       \* number of the current run
  scored, kept, dropped, allowed,   \* locals of main()
  fsStart,   \* the file system when the current run started
  srcRead,   \* the texts the current run read from the source path
  wlog,      \* the writes of the current run: path and resulting contents
  stdout,    \* the counts main() prints
  failedAt,  \* which write of the current run raised, 0 when none did
  finished   \* one record per earlier run

vars == << args, oracle, fs, pc, run, scored, kept, dropped, allowed,
           fsStart, srcRead, wlog, stdout, failedAt, finished >>

locals == << scored, kept, dropped, allowed >>

Oracles == [ KnownWords -> FreqVals ]
\* Tables in which a word is either unknown or common
OraclesPaths == [ KnownWords -> { 0, 532 } ]

InitWith(argsSet, tables) ==
  /\ args \in argsSet
  /\ oracle \in tables
  /\ \E src \in { NoFile } \cup { File(t) : t \in InitTexts } :
       fs = [ p \in Paths |-> IF p = args.source THEN src
                              ELSE IF p = OtherPath THEN File(OldText)
                              ELSE NoFile ]
  /\ pc = "start"
  /\ run = 1
  /\ scored = << >> /\ kept = << >> /\ dropped = << >> /\ allowed = << >>
  /\ fsStart = fs
  /\ srcRead = << >>
  /\ wlog = << >>
  /\ stdout = << >>
  /\ failedAt = 0
  /\ finished = << >>

Init == InitWith(ArgsSet, Oracles)
InitValues == InitWith(ArgsValues, Oracles)
InitPaths == InitWith(ArgsPaths, OraclesPaths)

\* ----------------------------------------------------------------- main()
\* lines 91-93: the source is missing, SystemExit
SourceNotFound ==
  /\ pc = "start"
  /\ ~ path_exists(fs, args.source)
  /\ pc' = "exit_not_found"
  /\ fs' = not_found_fs(fs, args)
  /\ UNCHANGED << args, oracle, run, locals, fsStart, srcRead, wlog, stdout, failedAt, finished >>

\* lines 95-100: read and score the source, split by the answer threshold
LoadAndScore ==
  /\ pc = "start"
  /\ path_exists(fs, args.source)
  /\ LET text == fs[args.source].text
         sc == score_words(oracle, load_words(text))
     IN /\ srcRead' = Append(srcRead, text)
        /\ scored' = sc
        /\ kept' = Kept(sc, args.threshold)
        /\ dropped' = Dropped(sc, args.threshold)
  /\ pc' = "save_answer"
  /\ UNCHANGED << args, oracle, fs, run, allowed, fsStart, wlog, stdout, failedAt, finished >>

\* lines 102-104: the answer list
SaveAnswer ==
  /\ pc = "save_answer"
  /\ fs' = write_text(fs, OutputPath(args), save_words_text(SortedWords(WordsOf(kept))))
  /\ wlog' = Append(wlog, [ path |-> OutputPath(args), text |-> fs'[OutputPath(args)].text ])
  /\ pc' = "save_guesses"
  /\ UNCHANGED << args, oracle, run, locals, fsStart, srcRead, stdout, failedAt, finished >>

SaveAnswerFails ==
  /\ pc = "save_answer"
  /\ fs' \in failed_write(fs, OutputPath(args), save_words_text(SortedWords(WordsOf(kept))))
  /\ pc' = "exit_io_error"
  /\ failedAt' = 1
  /\ UNCHANGED << args, oracle, run, locals, fsStart, srcRead, wlog, stdout, finished >>

\* The allowed-guesses list taken from the answer list
guesses_input_kept(scoredSeq, keptSeq) == keptSeq

\* The allowed-guesses list taken from a second read of the source
guesses_input_reread(scoredSeq, keptSeq) ==
  IF path_exists(fs, args.source)
  THEN score_words(oracle, load_words(fs[args.source].text))
  ELSE scoredSeq

\* What the allowed-guesses list is computed from (line 111: scored)
guesses_input(scoredSeq, keptSeq) == scoredSeq

\* lines 106-113: the allowed-guesses list; args.guesses_output is a Path,
\* which is always true
SaveGuesses ==
  /\ pc = "save_guesses"
  /\ allowed' = SortedWords(WordsOf(AllowedEntries(guesses_input(scored, kept), args.guesses_threshold)))
  /\ fs' = write_text(fs, args.guesses_output, save_words_text(allowed'))
  /\ wlog' = Append(wlog, [ path |-> args.guesses_output, text |-> fs'[args.guesses_output].text ])
  /\ pc' = "export"
  /\ UNCHANGED << args, oracle, run, scored, kept, dropped, fsStart, srcRead, stdout, failedAt, finished >>

SaveGuessesFails ==
  /\ pc = "save_guesses"
  /\ allowed' = SortedWords(WordsOf(AllowedEntries(guesses_input(scored, kept), args.guesses_threshold)))
  /\ fs' \in failed_write(fs, args.guesses_output, save_words_text(allowed'))
  /\ pc' = "exit_io_error"
  /\ failedAt' = 2
  /\ UNCHANGED << args, oracle, run, scored, kept, dropped, fsStart, srcRead, wlog, stdout, finished >>

\* The report written whether or not anything was dropped
has_rejects_always(droppedSeq) == TRUE

\* line 115: if dropped
has_rejects(droppedSeq) == droppedSeq # << >>

\* lines 118-120: the counts of the summary
Summary == << Len(scored), Len(kept), Len(dropped) >>

\* lines 115-121: the reject report, then the summary
ExportRejects ==
  /\ pc = "export"
  /\ has_rejects(dropped)
  /\ fs' = write_text(fs, args.rejects, export_rejects_text(SortedByFreq(dropped)))
  /\ wlog' = Append(wlog, [ path |-> args.rejects, text |-> fs'[args.rejects].text ])
  /\ stdout' = Summary
  /\ pc' = "done"
  /\ UNCHANGED << args, oracle, run, locals, fsStart, srcRead, failedAt, finished >>

ExportRejectsFails ==
  /\ pc = "export"
  /\ has_rejects(dropped)
  /\ fs' \in failed_write(fs, args.rejects, export_rejects_text(SortedByFreq(dropped)))
  /\ pc' = "exit_io_error"
  /\ failedAt' = 3
  /\ UNCHANGED << args, oracle, run, locals, fsStart, srcRead, wlog, stdout, finished >>

NoRejects ==
  /\ pc = "export"
  /\ ~ has_rejects(dropped)
  /\ stdout' = Summary
  /\ pc' = "done"
  /\ UNCHANGED << args, oracle, fs, run, locals, fsStart, srcRead, wlog, failedAt, finished >>

\* The script is started again, with the same command line, on the files the
\* earlier run left; a run that died on a write is not followed up
RunAgain ==
  /\ pc \in { "done", "exit_not_found" }
  /\ run < MaxRuns
  /\ finished' = Append(finished, [ status |-> pc, start |-> fsStart, src |-> srcRead, writes |-> wlog ])
  /\ run' = run + 1
  /\ pc' = "start"
  /\ scored' = << >> /\ kept' = << >> /\ dropped' = << >> /\ allowed' = << >>
  /\ fsStart' = fs
  /\ srcRead' = << >>
  /\ wlog' = << >>
  /\ stdout' = << >>
  /\ failedAt' = 0
  /\ UNCHANGED << args, oracle, fs >>

Next ==
  \/ SourceNotFound
  \/ LoadAndScore
  \/ SaveAnswer
  \/ SaveAnswerFails
  \/ SaveGuesses
  \/ SaveGuessesFails
  \/ ExportRejects
  \/ ExportRejectsFails
  \/ NoRejects
  \/ RunAgain

\* Every command line with every table
Spec == Init /\ [][Next]_vars
\* The same program on the command lines of ArgsValues
SpecValues == InitValues /\ [][Next]_vars
\* The same program on the command lines of ArgsPaths
SpecPaths == InitPaths /\ [][Next]_vars

\* ------------------------------------------------------- helpers of claims
Count(e, seq) == Cardinality({ i \in DOMAIN seq : seq[i] = e })

Loaded == pc \in { "save_answer", "save_guesses", "export", "done", "exit_io_error" }

\* C1: once the source is scored, every occurrence of a scored entry is in
\* exactly one of kept and dropped: in kept exactly when its freq is at least
\* the answer threshold, in dropped exactly when it is below it, so the two
\* lengths add up to the length of scored and a score equal to the threshold
\* is kept.
C1_Partition ==
  Loaded =>
    /\ Len(kept) + Len(dropped) = Len(scored)
    /\ \A i \in DOMAIN kept : kept[i].freq >= args.threshold
    /\ \A i \in DOMAIN dropped : dropped[i].freq < args.threshold
    /\ \A i \in DOMAIN scored :
         LET e == scored[i]
         IN /\ Count(e, kept) + Count(e, dropped) = Count(e, scored)
            /\ (e.freq >= args.threshold) <=> (Count(e, kept) > 0)
            /\ (e.freq < args.threshold) <=> (Count(e, dropped) > 0)
            /\ (e.freq = args.threshold) => (Count(e, kept) = Count(e, scored))

C1_Witness ==
  /\ Loaded
  /\ \E i \in DOMAIN kept : kept[i].freq = args.threshold
  /\ dropped # << >>
  /\ \E i \in DOMAIN scored : Count(scored[i], scored) > 1

\* C2: after a successful run the file at the answer-list output path holds
\* exactly the words of kept, sorted ascending, one per line, whatever the
\* four paths are.
C2_AnswerFileHoldsKept ==
  pc = "done" => fs[OutputPath(args)] = File(save_words_text(SortedWords(WordsOf(kept))))

\* The number of scored entries with word w that pass the guesses threshold
PassingCount(w) ==
  Cardinality({ i \in DOMAIN scored :
                  /\ scored[i].word = w
                  /\ (args.guesses_threshold = << >> \/ scored[i].freq >= args.guesses_threshold[1]) })

\* C3: the allowed-guesses list written is the filter of the whole scored set
\* by freq >= guesses_threshold, whatever the answer threshold and kept are:
\* with no guesses threshold every scored entry is in it, dropped ones
\* included, and with one set a kept entry below it is absent.
C3_AllowedIndependent ==
  pc \in { "export", "done" } =>
    /\ \A i \in DOMAIN scored : Count(scored[i].word, allowed) = PassingCount(scored[i].word)
    /\ \A i \in DOMAIN allowed : PassingCount(allowed[i]) > 0
    /\ args.guesses_threshold = << >> => Len(allowed) = Len(scored)
    /\ wlog[2] = [ path |-> args.guesses_output, text |-> save_words_text(allowed) ]

C3_Witness ==
  /\ pc = "done"
  /\ args.guesses_threshold # << >>
  /\ args.guesses_threshold[1] > args.threshold
  /\ \E i \in DOMAIN kept : Count(kept[i].word, allowed) = 0
  /\ allowed # << >>

ReportHeader == CsvRow(HeaderWord, HeaderFreq)

\* The file is there and starts with the header row of a reject report
IsRejectReport(f) ==
  /\ f.exists
  /\ Len(f.text) >= Len(ReportHeader)
  /\ SubSeq(f.text, 1, Len(ReportHeader)) = ReportHeader

\* C4 as stated: after a successful run a reject report is at the rejects
\* path if and only if dropped was non-empty in that run, whatever was on
\* disk before.
C4_ReportExistsIffDropped ==
  pc = "done" => (IsRejectReport(fs[args.rejects]) <=> dropped # << >>)

\* C4 as amended: a successful run writes the reject report, as its third and
\* last write, if and only if dropped is non-empty; with dropped empty it
\* makes two writes only, and a rejects path that is neither output path
\* holds what it held before the run, an earlier report included.
C4_ReportWrittenIffDropped ==
  pc = "done" =>
    /\ (dropped # << >>) <=> (Len(wlog) = 3)
    /\ dropped # << >> =>
         /\ wlog[3].path = args.rejects
         /\ IsRejectReport(fs[args.rejects])
         /\ fs[args.rejects].text = wlog[3].text
    /\ dropped = << >> =>
         /\ Len(wlog) = 2
         /\ args.rejects \notin { OutputPath(args), args.guesses_output } =>
              fs[args.rejects] = fsStart[args.rejects]

C4_Witness ==
  /\ pc = "done"
  /\ scored # << >>
  /\ dropped = << >>
  /\ args.rejects \notin { OutputPath(args), args.guesses_output }
  /\ IsRejectReport(fs[args.rejects])

\* The word lists among the writes of the run: the answer list, then the
\* allowed-guesses list
WordListWrites == DOMAIN wlog \cap { 1, 2 }
ListWords(k) == IF k = 1 THEN WordsOf(kept) ELSE allowed

\* C5 as stated: every word list written is in strict ascending order, one
\* word per line, also when a word is on more than one line of the source.
C5_StrictlyAscending ==
  \A k \in WordListWrites :
    LET lines == splitlines(wlog[k].text)
    IN \A i \in 1..(Len(lines) - 1) : StrLess(lines[i], lines[i + 1])

\* C5 as amended: every word list written is in non-decreasing order, one
\* word per line with each occurrence on a line of its own, and strictly
\* ascending when no word occurs twice in the list.
C5_Ascending ==
  \A k \in WordListWrites :
    LET lines == splitlines(wlog[k].text)
        words == ListWords(k)
    IN /\ \A i \in 1..(Len(lines) - 1) : StrLeq(lines[i], lines[i + 1])
       /\ words = << >> => wlog[k].text = << "\n" >>
       /\ words # << >> =>
            /\ Len(lines) = Len(words)
            /\ wlog[k].text = TextOfLines(lines)
            /\ \A i \in DOMAIN words : Count(words[i], lines) = Count(words[i], words)
       /\ (\A i \in DOMAIN words : Count(words[i], words) = 1) =>
            \A i \in 1..(Len(lines) - 1) : StrLess(lines[i], lines[i + 1])

C5_Witness ==
  /\ pc = "done"
  /\ \E i \in 1..(Len(kept) - 1) : StrLess(kept[i + 1].word, kept[i].word)
  /\ \E i \in DOMAIN kept : Count(kept[i].word, WordsOf(kept)) = 2
  /\ LET lines == splitlines(wlog[1].text)
     IN \E i \in 1..(Len(lines) - 1) : lines[i] = lines[i + 1]

\* Reading a report row back: the frequency is the field after the last comma
LastComma(line) ==
  LET commas == { i \in DOMAIN line : line[i] = "," }
  IN IF commas = { } THEN 0 ELSE Max(commas)

DigitVal(c) == Ord[c] - Ord["0"]

\* The digits of a d.ddd field as a number of thousandths
RECURSIVE Thousandths(_, _)
Thousandths(field, acc) ==
  IF field = << >> THEN acc
  ELSE IF Head(field) = "." THEN Thousandths(Tail(field), acc)
  ELSE Thousandths(Tail(field), 10 * acc + DigitVal(Head(field)))

RowFreq(line) == Thousandths(SubSeq(line, LastComma(line) + 1, Len(line)), 0)
RowWord(line) == SubSeq(line, 1, LastComma(line) - 1)

\* C6: when dropped is non-empty the reject report written has, after the
\* header row, one data row per occurrence in dropped, and the frequencies
\* of consecutive rows never decrease.
C6_ReportRows ==
  (pc = "done" /\ dropped # << >>) =>
    LET lines == splitlines(wlog[3].text)
        rows == Tail(lines)
    IN /\ lines[1] = HeaderWord \o << "," >> \o HeaderFreq
       /\ Len(rows) = Len(dropped)
       /\ \A i \in 1..(Len(rows) - 1) : RowFreq(rows[i]) <= RowFreq(rows[i + 1])
       /\ \A i \in DOMAIN dropped :
            LET e == dropped[i]
            IN Cardinality({ j \in DOMAIN rows :
                               /\ RowWord(rows[j]) = CsvField(e.word)
                               /\ RowFreq(rows[j]) = 10 * e.freq })
               = Count(e, dropped)
       /\ \A j \in DOMAIN rows : Len(rows[j]) - LastComma(rows[j]) = 5

C6_Witness ==
  /\ pc = "done"
  /\ Len(dropped) >= 3
  /\ \E i \in 1..(Len(dropped) - 1) : dropped[i].freq > dropped[i + 1].freq
  /\ \E i \in DOMAIN dropped : Count(dropped[i], dropped) > 1
  /\ wlog[3].path = args.rejects

\* C7: a run that finds no source ends in an error with nothing scored and
\* nothing written: every path holds what it held when the run started, and
\* a run whose source is missing never gets past lines 92-93.
C7_NotFoundNoEffect ==
  /\ pc = "exit_not_found" =>
       /\ ~ fsStart[args.source].exists
       /\ fs = fsStart
       /\ scored = << >> /\ kept = << >> /\ dropped = << >> /\ allowed = << >>
       /\ srcRead = << >>
       /\ wlog = << >>
       /\ stdout = << >>
  /\ ~ fsStart[args.source].exists => pc \in { "start", "exit_not_found" }

C7_Witness ==
  /\ pc = "exit_not_found"
  /\ \E p \in Paths : fs[p].exists /\ fs[p].text # << >>

\* An earlier run and the current one, or two earlier runs, as records
CompletedRuns ==
  { r \in { finished[i] : i \in DOMAIN finished } : r.status = "done" }
    \cup (IF pc = "done"
          THEN { [ status |-> pc, start |-> fsStart, src |-> srcRead, writes |-> wlog ] }
          ELSE { })

\* C8: two completed runs that read the same source contents, under the one
\* oracle and command line, made the same writes: the same paths in the same
\* order, each left with the same bytes, whatever else was on disk.
C8_Deterministic ==
  \A r1, r2 \in CompletedRuns : r1.src = r2.src => r1.writes = r2.writes

C8_Witness ==
  /\ pc = "done"
  /\ Len(wlog) = 3
  /\ \E i \in DOMAIN finished :
       /\ finished[i].status = "done"
       /\ finished[i].src = srcRead
       /\ finished[i].start # fsStart

\* The paths main() writes, in the order it writes them
WriteOrder == << OutputPath(args), args.guesses_output, args.rejects >>

\* The text of the k-th artifact of the current run
ArtifactText(k) ==
  IF k = 1 THEN save_words_text(SortedWords(WordsOf(kept)))
  ELSE IF k = 2 THEN save_words_text(allowed)
  ELSE export_rejects_text(SortedByFreq(dropped))

\* C9: the artifacts are written in the order answer list, allowed-guesses
\* list, reject report; when the write of the k-th raises, each artifact
\* written before it is still on disk with its new contents, and none after
\* it has been written.
C9_EarlierArtifactsRemain ==
  /\ \A k \in DOMAIN wlog : wlog[k].path = WriteOrder[k]
  /\ pc = "exit_io_error" =>
       /\ Len(wlog) = failedAt - 1
       /\ \A j \in 1..(failedAt - 1) : fs[WriteOrder[j]] = File(ArtifactText(j))

\* C10: a run reads the source once, before its first write, and kept,
\* dropped and allowed all come from the source as it was when the run
\* started, also when a write of the run has replaced the source file.
C10_ReadOnceBeforeWrites ==
  /\ Len(srcRead) <= 1
  /\ wlog # << >> => Len(srcRead) = 1
  /\ Loaded =>
       \A atStart \in { score_words(oracle, load_words(fsStart[args.source].text)) } :
          /\ srcRead = << fsStart[args.source].text >>
          /\ scored = atStart
          /\ kept = Kept(atStart, args.threshold)
          /\ dropped = Dropped(atStart, args.threshold)
          /\ Len(wlog) >= 2 =>
               /\ allowed = SortedWords(WordsOf(AllowedEntries(atStart, args.guesses_threshold)))
               /\ wlog[2].text = save_words_text(allowed)

C10_Witness ==
  /\ pc = "done"
  /\ wlog[1].path = args.source
  /\ args.guesses_threshold = << >>
  /\ Len(load_words(wlog[1].text)) < Len(scored)
  /\ Len(allowed) = Len(scored)
  /\ fs[args.source].text # fsStart[args.source].text

====
